---- MODULE Spec2Model ----
(***************************************************************************)
(* Privileged-session management of chrootmanager: the ElevationCache      *)
(* (authenticated flag, last_auth instant, session keeper handle), the     *)
(* session keeper thread, the SecureElevation gateway and the ChrootUnit   *)
(* call sites that reach it through the two process-wide statics           *)
(* GLOBAL_ELEVATION (src/src/elevation.rs) and SHARED_ELEVATION            *)
(* (src/src/chroot/auth.rs).                                               *)
(*                                                                         *)
(* Time is counted in whole minutes.  last_auth holds the minutes elapsed  *)
(* since the stored Instant (what Instant::elapsed() returns), saturating  *)
(* at cache_duration: is_authenticated only compares it with               *)
(* cache_duration.  Every Mutex acquisition of the code is one atomic      *)
(* step; steps that touch nothing another thread can see are merged with   *)
(* the next step that does.  The outcome of every external process         *)
(* (which, sudo -v, sudo -n -v, sudo -n <command>) is a nondeterministic   *)
(* choice.                                                                 *)
(***************************************************************************)
EXTENDS Integers, Sequences, FiniteSets, TLC

\* ------------------------------------------------------------------ bounds

\* Caller threads that may use the gateways.
NumCallers ==
    2

\* Largest batch handed to execute_batch_commands.
MaxBatch ==
    3

\* Keeper thread slots per cache (the code joins a keeper before it spawns
\* the next one, so one slot is in use; the spare slots exist so that a second
\* live keeper would be representable).
MaxKeepers ==
    2

\* Minutes a keeper may fall behind its one-iteration-per-minute schedule:
\* the minutes that pass, over its life, while it is outside thread::sleep
\* (waiting for the authenticated lock, running `sudo -n -v`).
MaxKeeperLag ==
    2

\* Minutes that may pass in the ChrootUnit specification.
MaxUnitMinutes ==
    2

\* ------------------------------------------------------- program constants

\* SecureElevation::new: ElevationCache::new(45)
CACHE_MINUTES ==
    45

\* ChrootUnit::mount_filesystems: the commands of mount_commands.
MOUNT_COMMANDS ==
    7

\* ChrootUnit::unmount_filesystems: the entries of mount_points.
MOUNT_POINTS ==
    5

\* ElevationCache::new: cache_duration = cache_duration_minutes * 60 s,
\* here in minutes.
cache_duration ==
    CACHE_MINUTES

\* keeper closure: max_iterations = cache_duration.as_secs() / 60
max_iterations ==
    cache_duration

\* ------------------------------------------------------------------- names

Callers == 1..NumCallers
KeeperIds == 1..MaxKeepers

\* The two statics holding an Arc<Mutex<SecureElevation>>.
GLOBAL_ELEVATION == "GLOBAL_ELEVATION"
SHARED_ELEVATION == "SHARED_ELEVATION"
Gateways == {GLOBAL_ELEVATION, SHARED_ELEVATION}

\* Option::None of last_auth and of session_keeper_handle.
NoInstant == -1
NoHandle == 0

\* ElevationError variants a gateway call can return, and the two Ok shapes.
Results ==
    {"none", "Ok", "OkTrue", "OkFalse", "SudoNotAvailable", "AccessDenied",
     "PermissionDenied", "AuthenticationRequired", "Io"}

\* The public methods of SecureElevation.
Ops ==
    {"pre_authenticate", "execute_command", "execute_command_interactive",
     "execute_batch_commands", "is_authenticated", "invalidate_cache"}

\* What `sudo -n <command>` can give back through Command::output(): an
\* Output (exit status, and whether stderr holds one of the two expiry
\* phrases / one of the two permission phrases), or an io::Error.
Outputs ==
    [success : BOOLEAN, expiry : BOOLEAN, perm : BOOLEAN]

VARIABLES
    authenticated,          \* [Gateways -> BOOLEAN]         ElevationCache.authenticated
    last_auth,              \* [Gateways -> NoInstant, 0..cache_duration]
    session_keeper_handle,  \* [Gateways -> NoHandle or a keeper id]
    keeper,                 \* [Gateways -> [KeeperIds -> keeper thread]]
    glock,                  \* [Gateways -> 0 or the caller holding the Mutex]
    frame,                  \* [Callers -> the caller's position in a gateway call]
    obs,                    \* [Callers -> what the current call has done so far]
    trusted,                \* [Gateways -> BOOLEAN]  history, see Tick
    ever_auth,              \* [Gateways -> BOOLEAN]  history: an authenticate succeeded
    last_call,              \* [Gateways -> the previous completed call]
    minutes,                \* minutes passed (ChrootUnit specification only)
    uframe                  \* [Callers -> the caller's position in a ChrootUnit method]

cacheVars == <<authenticated, last_auth, session_keeper_handle>>
histVars == <<trusted, ever_auth, last_call>>
unitVars == <<minutes, uframe>>
vars ==
    <<authenticated, last_auth, session_keeper_handle, keeper, glock, frame,
      obs, trusted, ever_auth, last_call, minutes, uframe>>

\* ------------------------------------------------------------------ cache

\* Variant of IsAuthenticated that still trusts a confirmation whose age has
\* reached cache_duration.
IsAuthenticatedInclusive(g) ==
    IF last_auth[g] # NoInstant /\ last_auth[g] <= cache_duration
    THEN authenticated[g]
    ELSE FALSE

\* ElevationCache::is_authenticated
IsAuthenticated(g) ==
    IF last_auth[g] # NoInstant /\ last_auth[g] < cache_duration
    THEN authenticated[g]
    ELSE FALSE

FreeKeeper == [pc |-> "free", iterations |-> 0, late |-> 0]
DoneKeeper == [pc |-> "done", iterations |-> 0, late |-> 0]

KeeperAwake(kp) == kp.pc \in {"slept", "renew", "failed"}

\* A keeper thread that has been spawned and has not returned from its closure.
KeeperAlive(g, k) ==
    keeper[g][k].pc \in {"sleeping", "slept", "renew", "failed"}

KeepersAlive(g) ==
    {k \in KeeperIds : KeeperAlive(g, k)}

IdleFrame ==
    [pc |-> "idle", op |-> "none", gw |-> "none", site |-> "none",
     stopfor |-> "none", n |-> 0, idx |-> 0, joining |-> NoHandle,
     result |-> "none"]

NoObs ==
    [prompts |-> 0, granted |-> FALSE, rejected |-> FALSE,
     spawned |-> <<>>, failed |-> FALSE, perm |-> FALSE,
     err_at |-> 0, err |-> "none", started |-> 0, wrote |-> FALSE,
     invalidated |-> FALSE, expiry |-> FALSE, fresh |-> FALSE,
     prev |-> "other"]

\* A caller outside every ChrootUnit method and every CLI function.  op, pc,
\* mp and result belong to the ChrootUnit method in progress; cmd and remove
\* to the CLI function or cleanup call that makes it; the rest is the history
\* of that function: whether an umount command failed, whether the chroot
\* directory was deleted, how often the chroot was entered and
\* unmount_filesystems called, and the result of the chroot entry.
IdleUnit ==
    [op |-> "none", pc |-> "none", mp |-> 0, result |-> "none",
     cmd |-> "none", remove |-> FALSE, failed |-> FALSE, removed |-> FALSE,
     entered |-> 0, unmounts |-> 0, entry |-> "none", cmd_result |-> "none"]

Init ==
    /\ authenticated = [g \in Gateways |-> FALSE]
    /\ last_auth = [g \in Gateways |-> NoInstant]
    /\ session_keeper_handle = [g \in Gateways |-> NoHandle]
    /\ keeper = [g \in Gateways |-> [k \in KeeperIds |-> FreeKeeper]]
    /\ glock = [g \in Gateways |-> 0]
    /\ frame = [t \in Callers |-> IdleFrame]
    /\ obs = [t \in Callers |-> NoObs]
    /\ trusted = [g \in Gateways |-> FALSE]
    /\ ever_auth = [g \in Gateways |-> FALSE]
    /\ last_call = [g \in Gateways |-> "other"]
    /\ minutes = 0
    /\ uframe = [t \in Callers |-> IdleUnit]

\* History: last_call[g] is "auth0" / "auth1" when the previous completed call
\* on g was a pre_authenticate that returned Ok after 0 / 1 prompts, with the
\* session in force at its return and not ended since (TTL expiry, keeper
\* renewal failure),
\* "invalidate" when it was an invalidate_cache, "other" otherwise.
BreakChain(v) ==
    IF v \in {"auth0", "auth1"} THEN "other" ELSE v

\* History: the sessions of the gateways in gs have ended, also for the calls
\* in progress that remember the previous call.
ChainBroken(gs) ==
    [t \in Callers |->
       IF frame[t].gw \in gs THEN [obs[t] EXCEPT !.prev = BreakChain(@)]
       ELSE obs[t]]

\* --------------------------------------------------------------- the clock

\* Where a caller can spend a minute: outside the gateway, in the sudo
\* prompt, in the command it runs through sudo, and in handle.join().  The
\* in-memory statements between those take no minute.
BlockingPcs ==
    {"idle", "sudo_v", "sudo_n", "sudo_n_inherit", "join"}

\* One minute passes: every stored Instant is one minute older, and every
\* keeper inside thread::sleep(60 s) has slept its minute.  A confirmation
\* that reaches cache_duration has expired (history: trusted).
MinutePasses ==
    /\ \A t \in Callers : frame[t].pc \in BlockingPcs
    /\ \A g \in Gateways, k \in KeeperIds :
         KeeperAwake(keeper[g][k]) => keeper[g][k].late < MaxKeeperLag
    /\ last_auth' =
         [g \in Gateways |->
            IF last_auth[g] = NoInstant \/ last_auth[g] = cache_duration
            THEN last_auth[g]
            ELSE last_auth[g] + 1]
    /\ keeper' =
         [g \in Gateways |->
            [k \in KeeperIds |->
               IF keeper[g][k].pc = "sleeping"
               THEN [keeper[g][k] EXCEPT !.pc = "slept"]
               ELSE IF KeeperAwake(keeper[g][k])
                    THEN [keeper[g][k] EXCEPT !.late = @ + 1]
                    ELSE keeper[g][k]]]
    /\ trusted' =
         [g \in Gateways |->
            trusted[g] /\ last_auth[g] # NoInstant
                       /\ last_auth[g] + 1 < cache_duration]
    /\ last_call' =
         [g \in Gateways |->
            IF last_auth[g] # NoInstant /\ last_auth[g] + 1 = cache_duration
            THEN BreakChain(last_call[g])
            ELSE last_call[g]]
    /\ obs' = ChainBroken({g \in Gateways : last_auth[g] # NoInstant
                                /\ last_auth[g] + 1 = cache_duration})
    /\ UNCHANGED <<authenticated, session_keeper_handle, glock, frame,
                   ever_auth, uframe>>

Tick ==
    /\ MinutePasses
    /\ UNCHANGED minutes

\* ------------------------------------------------------ the session keeper

\* Variant of KeeperCheck in which the keeper reads the flag through the
\* gateway's Mutex, waiting while a caller holds it.
KeeperCheckUnderGatewayLock(g, k) ==
    /\ keeper[g][k].pc = "slept"
    /\ glock[g] = 0
    /\ keeper' =
         [keeper EXCEPT ![g][k] =
            IF authenticated[g]
            THEN [@ EXCEPT !.pc = "renew"]
            ELSE DoneKeeper]
    /\ UNCHANGED <<cacheVars, glock, frame, obs, histVars, unitVars>>

\* Variant of KeeperCheck that goes on to the renewal whatever the flag says.
KeeperCheckIgnoresFlag(g, k) ==
    /\ keeper[g][k].pc = "slept"
    /\ keeper' = [keeper EXCEPT ![g][k].pc = "renew"]
    /\ UNCHANGED <<cacheVars, glock, frame, obs, histVars, unitVars>>

\* Keeper closure, lines 98-108: the sleep has returned; lock authenticated
\* and read it; false stops the keeper, true goes on to the renewal.
KeeperCheck(g, k) ==
    /\ keeper[g][k].pc = "slept"
    /\ keeper' =
         [keeper EXCEPT ![g][k] =
            IF authenticated[g]
            THEN [@ EXCEPT !.pc = "renew"]
            ELSE DoneKeeper]
    /\ UNCHANGED <<cacheVars, glock, frame, obs, histVars, unitVars>>

\* Variant of KeeperAfterRenew without the iteration count of line 133.
KeeperAfterRenewUncounted(kp, outcome) ==
    CASE outcome = "ok" -> [kp EXCEPT !.pc = "sleeping"]
      [] outcome = "fail" -> [kp EXCEPT !.pc = "failed"]
      [] OTHER -> DoneKeeper

\* What the keeper does with the result of `sudo -n -v` (lines 116-133):
\* "ok" counts the iteration and loops (or leaves the loop at
\* max_iterations); "fail" (unsuccessful exit status) goes on to write
\* authenticated; "io" (output() returned Err) only breaks.
KeeperAfterRenew(kp, outcome) ==
    CASE outcome = "ok" ->
           IF kp.iterations + 1 < max_iterations
           THEN [kp EXCEPT !.pc = "sleeping", !.iterations = @ + 1]
           ELSE DoneKeeper
      [] outcome = "fail" -> [kp EXCEPT !.pc = "failed"]
      [] OTHER -> DoneKeeper

\* Variant of KeeperRenew in which a successful renewal restarts the
\* validity window.
KeeperRenewRefreshes(g, k) ==
    /\ keeper[g][k].pc = "renew"
    /\ \E outcome \in {"ok", "fail", "io"} :
         /\ keeper' = [keeper EXCEPT ![g][k] = KeeperAfterRenew(@, outcome)]
         /\ last_auth' = [last_auth EXCEPT ![g] =
                            IF outcome = "ok" /\ @ # NoInstant THEN 0 ELSE @]
         /\ trusted' = [trusted EXCEPT ![g] = @ /\ outcome # "io"]
         /\ last_call' = [last_call EXCEPT ![g] =
                            IF outcome = "io" THEN BreakChain(@) ELSE @]
         /\ obs' = ChainBroken(IF outcome = "io" THEN {g} ELSE {})
    /\ UNCHANGED <<authenticated, session_keeper_handle, glock, frame,
                   ever_auth, unitVars>>

\* Variant of KeeperRenew in which a successful renewal re-asserts the flag.
KeeperRenewReasserts(g, k) ==
    /\ keeper[g][k].pc = "renew"
    /\ \E outcome \in {"ok", "fail", "io"} :
         /\ keeper' = [keeper EXCEPT ![g][k] = KeeperAfterRenew(@, outcome)]
         /\ authenticated' = [authenticated EXCEPT ![g] = @ \/ outcome = "ok"]
         /\ trusted' = [trusted EXCEPT ![g] = @ /\ outcome # "io"]
         /\ last_call' = [last_call EXCEPT ![g] =
                            IF outcome = "io" THEN BreakChain(@) ELSE @]
         /\ obs' = ChainBroken(IF outcome = "io" THEN {g} ELSE {})
    /\ UNCHANGED <<last_auth, session_keeper_handle, glock, frame, ever_auth,
                   unitVars>>

\* Keeper closure, lines 111-133: run `sudo -n -v`.
KeeperRenew(g, k) ==
    /\ keeper[g][k].pc = "renew"
    /\ \E outcome \in {"ok", "fail", "io"} :
         /\ keeper' = [keeper EXCEPT ![g][k] = KeeperAfterRenew(@, outcome)]
         /\ trusted' = [trusted EXCEPT ![g] = @ /\ outcome # "io"]
         /\ last_call' = [last_call EXCEPT ![g] =
                            IF outcome = "io" THEN BreakChain(@) ELSE @]
         /\ obs' = ChainBroken(IF outcome = "io" THEN {g} ELSE {})
    /\ UNCHANGED <<cacheVars, glock, frame, ever_auth, unitVars>>

\* Keeper closure, lines 119-123: after a failed renewal, lock authenticated,
\* write false, break.
KeeperInvalidate(g, k) ==
    /\ keeper[g][k].pc = "failed"
    /\ authenticated' = [authenticated EXCEPT ![g] = FALSE]
    /\ keeper' = [keeper EXCEPT ![g][k] = DoneKeeper]
    /\ trusted' = [trusted EXCEPT ![g] = FALSE]
    /\ last_call' = [last_call EXCEPT ![g] = BreakChain(@)]
    /\ obs' = ChainBroken({g})
    /\ UNCHANGED <<last_auth, session_keeper_handle, glock, frame,
                   ever_auth, unitVars>>

KeeperStep ==
    \E g \in Gateways, k \in KeeperIds :
        \/ KeeperCheck(g, k)
        \/ KeeperRenew(g, k)
        \/ KeeperInvalidate(g, k)

\* ------------------------------------------------------- gateway: helpers

\* The frame of a call that returns r to the caller of the public method.
Ret(f, r) ==
    [f EXCEPT !.pc = "ret", !.result = r]

\* The frame in which a public method starts.
InvokeFrame(g, op, n) ==
    [IdleFrame EXCEPT !.pc = IF op = "invalidate_cache" THEN "invalidate"
                             ELSE op,
                      !.op = op, !.gw = g, !.n = n, !.idx = 1]

\* History: what a call knows at its start, lc being the previous call on g.
InvokeObs(g, op, lc) ==
    [NoObs EXCEPT !.fresh = ~ever_auth[g],
                  !.prev = IF op \in {"pre_authenticate", "invalidate_cache"}
                           THEN lc ELSE "other"]

\* Where a public method starts.
Invoke(t, g, op, n) ==
    /\ frame' = [frame EXCEPT ![t] = InvokeFrame(g, op, n)]
    /\ obs' = [obs EXCEPT ![t] = InvokeObs(g, op, last_call[g])]
    /\ last_call' = [last_call EXCEPT ![g] = "other"]

\* cache.authenticate() returned Ok(()) to its call site: pre_authenticate
\* line 200-204, execute_command line 216-219, execute_batch_commands
\* line 281-285.
AfterAuthenticate(f) ==
    CASE f.site = "pre" -> Ret(f, "Ok")
      [] f.site = "exec" -> [f EXCEPT !.pc = "sudo_n"]
      [] OTHER -> [f EXCEPT !.pc = IF f.idx <= f.n THEN "execute_command"
                                   ELSE "ret",
                            !.result = IF f.idx <= f.n THEN f.result ELSE "Ok"]

\* execute_command returned Ok(output): the public method returns it, or the
\* loop of execute_batch_commands (lines 285-290) pushes it and goes on.
AfterCommandOk(f) ==
    IF f.op = "execute_batch_commands"
    THEN IF f.idx + 1 <= f.n
         THEN [f EXCEPT !.idx = f.idx + 1, !.pc = "execute_command"]
         ELSE [f EXCEPT !.idx = f.idx + 1, !.pc = "ret", !.result = "Ok"]
    ELSE Ret(f, "Ok")

\* stop_session_keeper returned: to start_session_keeper line 93, or to
\* invalidate line 168 and from there to invalidate_cache (Ok) or to
\* execute_command line 235 (AccessDenied).
AfterStop(f) ==
    IF f.stopfor = "start"
    THEN [f EXCEPT !.pc = "spawn", !.joining = NoHandle]
    ELSE [Ret(f, IF f.op = "invalidate_cache" THEN "Ok" ELSE "AccessDenied")
            EXCEPT !.joining = NoHandle]

\* Variant of Classify that looks for the permission phrases first.
ClassifyPermissionFirst(out) ==
    IF ~out.success /\ out.perm THEN "denied"
    ELSE IF ~out.success /\ out.expiry THEN "expired"
    ELSE "ok"

\* execute_command lines 229-244: what becomes of an Output.
Classify(out) ==
    IF ~out.success /\ out.expiry THEN "expired"
    ELSE IF ~out.success /\ out.perm THEN "denied"
    ELSE "ok"

\* History: execute_command, called for command i, is returning the error e
\* (lines 210, 216, 227, 235, 240).
Erred(o, i, e) ==
    [o EXCEPT !.err_at = i, !.err = e]

\* History: `sudo -n <command i>` has run and given the Output out.
Observed(o, i, out) ==
    LET p == [o EXCEPT !.spawned = Append(@, i),
                       !.failed = @ \/ ~out.success,
                       !.perm = ~out.success /\ out.perm,
                       !.expiry = @ \/ (~out.success /\ out.expiry)]
    IN  IF ~out.success /\ out.expiry THEN Erred(p, i, "AccessDenied")
        ELSE IF ~out.success /\ out.perm THEN Erred(p, i, "PermissionDenied")
        ELSE p

\* ------------------------------------------------ gateway: authentication

\* Variant of PreAuthenticate that drops the session when sudo is missing.
PreAuthenticateDropsSession(t) ==
    LET f == frame[t]
        g == f.gw
    IN  /\ f.pc = "pre_authenticate"
        /\ \E available \in BOOLEAN :
             /\ frame' = [frame EXCEPT ![t] =
                   IF ~available THEN Ret(f, "SudoNotAvailable")
                   ELSE IF ~IsAuthenticated(g)
                        THEN [f EXCEPT !.pc = "authenticate", !.site = "pre"]
                        ELSE Ret(f, "Ok")]
             /\ authenticated' =
                   [authenticated EXCEPT ![g] = @ /\ available]
        /\ UNCHANGED <<last_auth, session_keeper_handle, keeper, glock, obs,
                       histVars, unitVars>>

\* SecureElevation::pre_authenticate
PreAuthenticate(t) ==
    LET f == frame[t]
        g == f.gw
    IN  /\ f.pc = "pre_authenticate"
        /\ \E available \in BOOLEAN :
             frame' = [frame EXCEPT ![t] =
                 IF ~available THEN Ret(f, "SudoNotAvailable")
                 ELSE IF ~IsAuthenticated(g)
                      THEN [f EXCEPT !.pc = "authenticate", !.site = "pre"]
                      ELSE Ret(f, "Ok")]
        /\ UNCHANGED <<cacheVars, keeper, glock, obs, histVars, unitVars>>

\* ElevationCache::authenticate lines 52-57: the cached fast path.
Authenticate(t) ==
    LET f == frame[t]
        g == f.gw
    IN  /\ f.pc = "authenticate"
        /\ frame' = [frame EXCEPT ![t] =
                       IF IsAuthenticated(g) THEN AfterAuthenticate(f)
                       ELSE [f EXCEPT !.pc = "sudo_v"]]
        /\ UNCHANGED <<cacheVars, keeper, glock, obs, histVars, unitVars>>

\* Variant of SudoV that does not look at the exit status of `sudo -v`.
SudoVIgnoresStatus(t) ==
    LET f == frame[t]
    IN  /\ f.pc = "sudo_v"
        /\ \E outcome \in {"ok", "denied", "io"} :
             /\ frame' = [frame EXCEPT ![t] =
                   CASE outcome = "ok" -> [f EXCEPT !.pc = "set_authenticated"]
                     [] outcome = "denied" -> [f EXCEPT !.pc = "set_authenticated"]
                     [] OTHER -> Ret(f, "Io")]
             /\ obs' = [obs EXCEPT ![t] =
                   LET o == [@ EXCEPT !.prompts = @ + 1,
                                      !.granted = @ \/ outcome = "ok",
                                      !.rejected = outcome = "denied"]
                   IN  IF f.site = "exec" /\ outcome # "ok"
                       THEN Erred(o, f.idx, IF outcome = "denied"
                                            THEN "AccessDenied" ELSE "Io")
                       ELSE o]
        /\ UNCHANGED <<cacheVars, keeper, glock, histVars, unitVars>>

\* ElevationCache::authenticate lines 62-66, 80-82: run `sudo -v`.
SudoV(t) ==
    LET f == frame[t]
    IN  /\ f.pc = "sudo_v"
        /\ \E outcome \in {"ok", "denied", "io"} :
             /\ frame' = [frame EXCEPT ![t] =
                   CASE outcome = "ok" -> [f EXCEPT !.pc = "set_authenticated"]
                     [] outcome = "denied" -> Ret(f, "AccessDenied")
                     [] OTHER -> Ret(f, "Io")]
             /\ obs' = [obs EXCEPT ![t] =
                   LET o == [@ EXCEPT !.prompts = @ + 1,
                                      !.granted = @ \/ outcome = "ok",
                                      !.rejected = outcome = "denied"]
                   IN  IF f.site = "exec" /\ outcome # "ok"
                       THEN Erred(o, f.idx, IF outcome = "denied"
                                            THEN "AccessDenied" ELSE "Io")
                       ELSE o]
        /\ UNCHANGED <<cacheVars, keeper, glock, histVars, unitVars>>

\* ElevationCache::authenticate line 67.
SetAuthenticated(t) ==
    LET f == frame[t]
        g == f.gw
    IN  /\ f.pc = "set_authenticated"
        /\ authenticated' = [authenticated EXCEPT ![g] = TRUE]
        /\ frame' = [frame EXCEPT ![t].pc = "set_last_auth"]
        /\ obs' = [obs EXCEPT ![t].wrote = TRUE]
        /\ UNCHANGED <<last_auth, session_keeper_handle, keeper, glock,
                       histVars, unitVars>>

\* ElevationCache::authenticate line 68 and the call of start_session_keeper,
\* whose first act (line 91) is stop_session_keeper.
SetLastAuth(t) ==
    LET f == frame[t]
        g == f.gw
    IN  /\ f.pc = "set_last_auth"
        /\ last_auth' = [last_auth EXCEPT ![g] = 0]
        /\ frame' = [frame EXCEPT ![t].pc = "stop", ![t].stopfor = "start"]
        /\ trusted' = [trusted EXCEPT ![g] = TRUE]
        /\ ever_auth' = [ever_auth EXCEPT ![g] = TRUE]
        /\ UNCHANGED <<authenticated, session_keeper_handle, keeper, glock,
                       obs, last_call, unitVars>>

\* Variant of StopSessionKeeper that drops the handle without joining.
StopSessionKeeperDetaches(t) ==
    LET f == frame[t]
        g == f.gw
        h == session_keeper_handle[g]
    IN  /\ f.pc = "stop"
        /\ frame' = [frame EXCEPT ![t] = AfterStop(f)]
        /\ IF h = NoHandle
           THEN UNCHANGED <<cacheVars, obs>>
           ELSE /\ session_keeper_handle' =
                     [session_keeper_handle EXCEPT ![g] = NoHandle]
                /\ authenticated' = [authenticated EXCEPT ![g] = FALSE]
                /\ obs' = [obs EXCEPT ![t].wrote = TRUE]
                /\ UNCHANGED last_auth
        /\ UNCHANGED <<keeper, glock, histVars, unitVars>>

\* ElevationCache::stop_session_keeper lines 144-149: take the handle; when
\* there was one, write authenticated = false and go on to join.
StopSessionKeeper(t) ==
    LET f == frame[t]
        g == f.gw
        h == session_keeper_handle[g]
    IN  /\ f.pc = "stop"
        /\ IF h = NoHandle
           THEN /\ frame' = [frame EXCEPT ![t] = AfterStop(f)]
                /\ UNCHANGED <<cacheVars, obs>>
           ELSE /\ session_keeper_handle' =
                     [session_keeper_handle EXCEPT ![g] = NoHandle]
                /\ authenticated' = [authenticated EXCEPT ![g] = FALSE]
                /\ frame' = [frame EXCEPT ![t].pc = "join", ![t].joining = h]
                /\ obs' = [obs EXCEPT ![t].wrote = TRUE]
                /\ UNCHANGED last_auth
        /\ UNCHANGED <<keeper, glock, histVars, unitVars>>

\* ElevationCache::stop_session_keeper line 152: handle.join() returns once
\* the keeper's closure has returned.
JoinKeeper(t) ==
    LET f == frame[t]
        g == f.gw
    IN  /\ f.pc = "join"
        /\ keeper[g][f.joining].pc = "done"
        /\ keeper' = [keeper EXCEPT ![g][f.joining] = FreeKeeper]
        /\ frame' = [frame EXCEPT ![t] = AfterStop(f)]
        /\ UNCHANGED <<cacheVars, glock, obs, histVars, unitVars>>

\* ElevationCache::start_session_keeper lines 93-139: spawn the keeper thread
\* (it starts in its first sleep) and store its handle; authenticate then
\* returns Ok (line 77).
SpawnKeeper(t) ==
    LET f == frame[t]
        g == f.gw
        free == {k \in KeeperIds : keeper[g][k].pc = "free"}
    IN  /\ f.pc = "spawn"
        /\ free # {}
        /\ LET k == CHOOSE x \in free : \A y \in free : x <= y
           IN  /\ keeper' = [keeper EXCEPT ![g][k] =
                               [pc |-> "sleeping", iterations |-> 0,
                                late |-> 0]]
               /\ session_keeper_handle' =
                    [session_keeper_handle EXCEPT ![g] = k]
        /\ frame' = [frame EXCEPT ![t] = AfterAuthenticate(f)]
        /\ obs' = [obs EXCEPT ![t].started = @ + 1, ![t].wrote = TRUE]
        /\ UNCHANGED <<authenticated, last_auth, glock, histVars, unitVars>>

\* Variant of Invalidate that leaves last_auth in place: it goes from line 165
\* straight to stop_session_keeper.
InvalidateFlagOnly(t) ==
    LET f == frame[t]
        g == f.gw
    IN  /\ f.pc = "invalidate"
        /\ authenticated' = [authenticated EXCEPT ![g] = FALSE]
        /\ frame' = [frame EXCEPT ![t].pc = "stop", ![t].stopfor = "invalidate"]
        /\ obs' = [obs EXCEPT ![t].wrote = TRUE, ![t].invalidated = TRUE]
        /\ trusted' = [trusted EXCEPT ![g] = FALSE]
        /\ UNCHANGED <<last_auth, session_keeper_handle, keeper, glock,
                       ever_auth, last_call, unitVars>>

\* ElevationCache::invalidate line 165.
Invalidate(t) ==
    LET f == frame[t]
        g == f.gw
    IN  /\ f.pc = "invalidate"
        /\ authenticated' = [authenticated EXCEPT ![g] = FALSE]
        /\ frame' = [frame EXCEPT ![t].pc = "clear_last_auth"]
        /\ obs' = [obs EXCEPT ![t].wrote = TRUE, ![t].invalidated = TRUE]
        /\ trusted' = [trusted EXCEPT ![g] = FALSE]
        /\ UNCHANGED <<last_auth, session_keeper_handle, keeper, glock,
                       ever_auth, last_call, unitVars>>

\* Variant of ClearLastAuth that returns without stop_session_keeper.
ClearLastAuthKeepsKeeper(t) ==
    LET f == frame[t]
        g == f.gw
    IN  /\ f.pc = "clear_last_auth"
        /\ last_auth' = [last_auth EXCEPT ![g] = NoInstant]
        /\ frame' = [frame EXCEPT ![t] =
                       AfterStop([f EXCEPT !.stopfor = "invalidate"])]
        /\ UNCHANGED <<authenticated, session_keeper_handle, keeper, glock,
                       obs, histVars, unitVars>>

\* ElevationCache::invalidate lines 166-167.
ClearLastAuth(t) ==
    LET f == frame[t]
        g == f.gw
    IN  /\ f.pc = "clear_last_auth"
        /\ last_auth' = [last_auth EXCEPT ![g] = NoInstant]
        /\ frame' = [frame EXCEPT ![t].pc = "stop", ![t].stopfor = "invalidate"]
        /\ UNCHANGED <<authenticated, session_keeper_handle, keeper, glock,
                       obs, histVars, unitVars>>

\* ----------------------------------------------------- gateway: execution

\* Variant of ExecuteCommand without lines 214-217: it spawns the command
\* whatever the cache says.
ExecuteCommandUnchecked(t) ==
    LET f == frame[t]
    IN  /\ f.pc = "execute_command"
        /\ \E available \in BOOLEAN :
             /\ frame' = [frame EXCEPT ![t] =
                   IF ~available THEN Ret(f, "SudoNotAvailable")
                   ELSE [f EXCEPT !.pc = "sudo_n"]]
             /\ obs' = [obs EXCEPT ![t] =
                   IF available THEN @ ELSE Erred(@, f.idx, "SudoNotAvailable")]
        /\ UNCHANGED <<cacheVars, keeper, glock, histVars, unitVars>>

\* SecureElevation::execute_command lines 209-217.
ExecuteCommand(t) ==
    LET f == frame[t]
        g == f.gw
    IN  /\ f.pc = "execute_command"
        /\ \E available \in BOOLEAN :
             /\ frame' = [frame EXCEPT ![t] =
                   IF ~available THEN Ret(f, "SudoNotAvailable")
                   ELSE IF ~IsAuthenticated(g)
                        THEN [f EXCEPT !.pc = "authenticate", !.site = "exec"]
                        ELSE [f EXCEPT !.pc = "sudo_n"]]
             /\ obs' = [obs EXCEPT ![t] =
                   IF available THEN @ ELSE Erred(@, f.idx, "SudoNotAvailable")]
        /\ UNCHANGED <<cacheVars, keeper, glock, histVars, unitVars>>

\* Variant of AfterOutput in which a permission failure is handed on like a
\* success.
AfterOutputDeniedContinues(f, out) ==
    CASE Classify(out) = "expired" -> [f EXCEPT !.pc = "invalidate"]
      [] OTHER -> AfterCommandOk(f)

\* What execute_command does once `sudo -n <command>` has given an Output
\* (lines 229-244).
AfterOutput(f, out) ==
    CASE Classify(out) = "expired" -> [f EXCEPT !.pc = "invalidate"]
      [] Classify(out) = "denied" -> Ret(f, "PermissionDenied")
      [] OTHER -> AfterCommandOk(f)

\* Variant of SudoN that clears the authenticated flag on a permission
\* failure before it returns PermissionDenied.
SudoNDeniedClearsFlag(t) ==
    LET f == frame[t]
        g == f.gw
    IN  /\ f.pc = "sudo_n"
        /\ \/ /\ frame' = [frame EXCEPT ![t] = Ret(f, "Io")]
              /\ obs' = [obs EXCEPT ![t] = Erred(@, f.idx, "Io")]
              /\ UNCHANGED authenticated
           \/ \E out \in Outputs :
                /\ frame' = [frame EXCEPT ![t] = AfterOutput(f, out)]
                /\ obs' = [obs EXCEPT ![t] =
                     [Observed(@, f.idx, out) EXCEPT
                        !.wrote = @ \/ Classify(out) = "denied"]]
                /\ authenticated' =
                     [authenticated EXCEPT ![g] = @ /\ Classify(out) # "denied"]
        /\ UNCHANGED <<last_auth, session_keeper_handle, keeper, glock,
                       histVars, unitVars>>

\* SecureElevation::execute_command lines 219-244: spawn the command through
\* `sudo -n` and classify what came back.
SudoN(t) ==
    LET f == frame[t]
    IN  /\ f.pc = "sudo_n"
        /\ \/ /\ frame' = [frame EXCEPT ![t] = Ret(f, "Io")]
              /\ obs' = [obs EXCEPT ![t] = Erred(@, f.idx, "Io")]
           \/ \E out \in Outputs :
                /\ frame' = [frame EXCEPT ![t] = AfterOutput(f, out)]
                /\ obs' = [obs EXCEPT ![t] = Observed(@, f.idx, out)]
        /\ UNCHANGED <<cacheVars, keeper, glock, histVars, unitVars>>

\* SecureElevation::execute_batch_commands lines 275-285.
ExecuteBatchCommands(t) ==
    LET f == frame[t]
        g == f.gw
    IN  /\ f.pc = "execute_batch_commands"
        /\ \E available \in BOOLEAN :
             frame' = [frame EXCEPT ![t] =
                 IF ~available THEN Ret(f, "SudoNotAvailable")
                 ELSE IF ~IsAuthenticated(g)
                      THEN [f EXCEPT !.pc = "authenticate", !.site = "batch"]
                      ELSE IF f.idx <= f.n
                           THEN [f EXCEPT !.pc = "execute_command"]
                           ELSE Ret(f, "Ok")]
        /\ UNCHANGED <<cacheVars, keeper, glock, obs, histVars, unitVars>>

\* SecureElevation::execute_command_interactive lines 253-259.
\* Variant of ExecuteCommandInteractive that runs the command without looking
\* at the cache.
ExecuteCommandInteractiveUnchecked(t) ==
    LET f == frame[t]
    IN  /\ f.pc = "execute_command_interactive"
        /\ \E available \in BOOLEAN :
             frame' = [frame EXCEPT ![t] =
                 IF ~available THEN Ret(f, "SudoNotAvailable")
                 ELSE [f EXCEPT !.pc = "sudo_n_inherit"]]
        /\ UNCHANGED <<cacheVars, keeper, glock, obs, histVars, unitVars>>

\* SecureElevation::execute_command_interactive lines 248-259.
ExecuteCommandInteractive(t) ==
    LET f == frame[t]
        g == f.gw
    IN  /\ f.pc = "execute_command_interactive"
        /\ \E available \in BOOLEAN :
             frame' = [frame EXCEPT ![t] =
                 IF ~available THEN Ret(f, "SudoNotAvailable")
                 ELSE IF ~IsAuthenticated(g)
                      THEN Ret(f, "AuthenticationRequired")
                      ELSE [f EXCEPT !.pc = "sudo_n_inherit"]]
        /\ UNCHANGED <<cacheVars, keeper, glock, obs, histVars, unitVars>>

\* Variant of SudoNInherit that treats a failed command as an expired session,
\* as execute_command does.
SudoNInheritDetectsExpiry(t) ==
    LET f == frame[t]
    IN  /\ f.pc = "sudo_n_inherit"
        /\ \/ /\ frame' = [frame EXCEPT ![t] = Ret(f, "Io")]
              /\ UNCHANGED <<obs, authenticated>>
           \/ \E success \in BOOLEAN :
                /\ frame' = [frame EXCEPT ![t] = Ret(f, "Ok")]
                /\ obs' = [obs EXCEPT ![t].spawned = Append(@, f.idx),
                                      ![t].failed = ~success]
                /\ authenticated' =
                      [authenticated EXCEPT ![f.gw] = @ /\ success]
        /\ UNCHANGED <<last_auth, session_keeper_handle, keeper, glock,
                       histVars, unitVars>>

\* SecureElevation::execute_command_interactive lines 261-270: the command
\* runs on the caller's terminal; any Output is returned as Ok.
SudoNInherit(t) ==
    LET f == frame[t]
    IN  /\ f.pc = "sudo_n_inherit"
        /\ \/ /\ frame' = [frame EXCEPT ![t] = Ret(f, "Io")]
              /\ UNCHANGED obs
           \/ \E success \in BOOLEAN :
                /\ frame' = [frame EXCEPT ![t] = Ret(f, "Ok")]
                /\ obs' = [obs EXCEPT ![t].spawned = Append(@, f.idx),
                                      ![t].failed = ~success]
        /\ UNCHANGED <<cacheVars, keeper, glock, histVars, unitVars>>

\* SecureElevation::is_authenticated
QueryAuthenticated(t) ==
    LET f == frame[t]
        g == f.gw
    IN  /\ f.pc = "is_authenticated"
        /\ frame' = [frame EXCEPT ![t] =
                       Ret(f, IF IsAuthenticated(g) THEN "OkTrue" ELSE "OkFalse")]
        /\ UNCHANGED <<cacheVars, keeper, glock, obs, histVars, unitVars>>

\* One step of the gateway call caller t is in.
GatewayStep(t) ==
    \/ PreAuthenticate(t)
    \/ Authenticate(t)
    \/ SudoV(t)
    \/ SetAuthenticated(t)
    \/ SetLastAuth(t)
    \/ StopSessionKeeper(t)
    \/ JoinKeeper(t)
    \/ SpawnKeeper(t)
    \/ Invalidate(t)
    \/ ClearLastAuth(t)
    \/ ExecuteCommand(t)
    \/ SudoN(t)
    \/ ExecuteBatchCommands(t)
    \/ ExecuteCommandInteractive(t)
    \/ SudoNInherit(t)
    \/ QueryAuthenticated(t)

\* ------------------------------------------- callers of one gateway (Spec)

\* What last_call remembers of a completed call.
Summary(f, o) ==
    IF f.op = "pre_authenticate" /\ f.result = "Ok" /\ trusted[f.gw]
    THEN IF o.prompts = 0 THEN "auth0" ELSE "auth1"
    ELSE IF f.op = "invalidate_cache" THEN "invalidate" ELSE "other"

\* Variant of Call that does not wait for the gateway's Mutex.
CallUnlocked(t, g) ==
    /\ frame[t].pc = "idle"
    /\ uframe[t].op = "none"
    /\ glock' = [glock EXCEPT ![g] = t]
    /\ \E op \in Ops :
         \E n \in 0..MaxBatch :
            /\ (op = "execute_batch_commands") \/ n = 1
            /\ Invoke(t, g, op, n)
    /\ UNCHANGED <<cacheVars, keeper, trusted, ever_auth, unitVars>>

\* A caller locks the gateway's Mutex and calls one public method, as the
\* ChrootUnit wrappers of src/src/chroot/auth.rs do (lock, call, drop guard).
Call(t, g) ==
    /\ frame[t].pc = "idle"
    /\ uframe[t].op = "none"
    /\ glock[g] = 0
    /\ glock' = [glock EXCEPT ![g] = t]
    /\ \E op \in Ops :
         \E n \in 0..MaxBatch :
            /\ (op = "execute_batch_commands") \/ n = 1
            /\ Invoke(t, g, op, n)
    /\ UNCHANGED <<cacheVars, keeper, trusted, ever_auth, unitVars>>

\* The method has returned; the guard is dropped.
Return(t) ==
    LET f == frame[t]
    IN  /\ f.pc = "ret"
        /\ uframe[t].op = "none"
        /\ glock' = [glock EXCEPT ![f.gw] = 0]
        /\ frame' = [frame EXCEPT ![t] = IdleFrame]
        /\ obs' = [obs EXCEPT ![t] = NoObs]
        /\ last_call' = [last_call EXCEPT ![f.gw] = Summary(f, obs[t])]
        /\ UNCHANGED <<cacheVars, keeper, trusted, ever_auth, unitVars>>

\* The gateway instance the single-gateway specification exercises.
TheGateway == SHARED_ELEVATION

Next ==
    \/ \E t \in Callers : Call(t, TheGateway)
    \/ \E t \in Callers : GatewayStep(t)
    \/ \E t \in Callers : Return(t)
    \/ KeeperStep
    \/ Tick

Spec == Init /\ [][Next]_vars

\* The same program under the scheduling the code relies on: a keeper thread
\* that can run does run, thread::sleep and the commands return as time
\* passes, and handle.join() returns once the joined thread has finished.
SpecStop ==
    /\ Init /\ [][Next]_vars
    /\ WF_vars(KeeperStep)
    /\ WF_vars(Tick)
    /\ \A t \in Callers : WF_vars(JoinKeeper(t))

\* ------------------------------- the ChrootUnit call sites (SpecUnit)

\* The thread that calls the ChrootUnit methods: the command line runs them
\* on the main thread.
UnitCallers == {1}

\* The ChrootUnit methods that reach a gateway.
UnitOps ==
    {"pre_authenticate_operations", "is_authenticated",
     "invalidate_authentication", "execute_elevated",
     "invalidate_elevation_cache", "is_elevation_cached",
     "mount_filesystems", "unmount_filesystems", "enter_chroot_interactive"}

\* The methods that start with `if !self.is_authenticated()`.
GuardedOps ==
    {"mount_filesystems", "unmount_filesystems", "enter_chroot_interactive"}

\* The static a ChrootUnit method locks first, and the SecureElevation method
\* it calls on it.
FirstGateway(uop) ==
    IF uop \in {"execute_elevated", "invalidate_elevation_cache",
                "is_elevation_cached"}
    THEN SHARED_ELEVATION
    ELSE GLOBAL_ELEVATION

FirstOp(uop) ==
    CASE uop = "pre_authenticate_operations" -> "pre_authenticate"
      [] uop \in {"invalidate_authentication", "invalidate_elevation_cache"} ->
           "invalidate_cache"
      [] uop = "execute_elevated" -> "execute_command"
      [] OTHER -> "is_authenticated"

\* What a guarded method calls on SHARED_ELEVATION once the guard has passed.
SecondOp(uop) ==
    CASE uop = "mount_filesystems" -> "execute_batch_commands"
      [] uop = "unmount_filesystems" -> "execute_command"
      [] OTHER -> "execute_command_interactive"

\* Variant of UnitResult in which mount_filesystems hands on the result of the
\* batch without looking at the exit statuses.
UnitResultUnchecked(u, f, o) ==
    CASE u.op \in {"invalidate_authentication", "invalidate_elevation_cache",
                   "unmount_filesystems"} -> "Ok"
      [] u.op = "enter_chroot_interactive" ->
           IF f.result # "Ok" \/ o.failed THEN "ElevationError" ELSE "Ok"
      [] OTHER -> f.result

\* What the ChrootUnit method returns, f and o being the frame and the
\* history of its last gateway call.
UnitResult(u, f, o) ==
    CASE u.op \in {"invalidate_authentication", "invalidate_elevation_cache",
                   "unmount_filesystems"} -> "Ok"
      [] u.op = "mount_filesystems" ->
           IF f.result # "Ok" THEN f.result
           ELSE IF o.failed THEN "Command" ELSE "Ok"
      [] u.op = "enter_chroot_interactive" ->
           IF f.result # "Ok" \/ o.failed THEN "ElevationError" ELSE "Ok"
      [] OTHER -> f.result

\* A ChrootUnit method is called: it locks its first static and calls the
\* SecureElevation method.
UnitCall(t) ==
    /\ frame[t].pc = "idle"
    /\ uframe[t].op = "none"
    /\ \E uop \in UnitOps :
         LET g == FirstGateway(uop)
         IN  /\ glock[g] = 0
             /\ glock' = [glock EXCEPT ![g] = t]
             /\ uframe' = [uframe EXCEPT ![t] =
                  [IdleUnit EXCEPT !.op = uop,
                                   !.pc = IF uop \in GuardedOps THEN "check"
                                          ELSE "run"]]
             /\ Invoke(t, g, FirstOp(uop), 1)
    /\ UNCHANGED <<cacheVars, keeper, trusted, ever_auth, minutes>>

\* History: inside cleanup, the umount command that has just returned to
\* unmount_filesystems exited unsuccessfully or was not run at all
\* (filesystem.rs 118-133, 144: logged or dropped).
UmountFailed(u, f, o) ==
    /\ u.cmd = "cleanup"
    /\ f.op = "execute_command"
    /\ (f.result # "Ok" \/ o.failed)

\* The ChrootUnit method returns r: the guard of its last gateway call is
\* dropped.
UnitFinish(t, r) ==
    /\ glock' = [glock EXCEPT ![frame[t].gw] = 0]
    /\ frame' = [frame EXCEPT ![t] = IdleFrame]
    /\ uframe' = [uframe EXCEPT ![t].pc = "done", ![t].result = r,
                                ![t].failed =
                                   @ \/ UmountFailed(uframe[t], frame[t], obs[t])]
    /\ last_call' = [last_call EXCEPT ![frame[t].gw] =
                       Summary(frame[t], obs[t])]
    /\ UNCHANGED obs

\* A gateway call made by a ChrootUnit method has returned.
\*  - the guard `if !self.is_authenticated()` (filesystem.rs 11, 97;
\*    terminal.rs 11): false returns AuthenticationRequired; true drops the
\*    GLOBAL_ELEVATION guard, locks SHARED_ELEVATION and calls SecondOp
\*    (enter_chroot_interactive may fail before that in prepare_chroot_bashrc);
\*  - unmount_filesystems, holding the SHARED_ELEVATION guard, calls
\*    execute_command again for every mount point that exists
\*    (filesystem.rs 137-145);
\*  - otherwise the method returns.
UnitContinue(t) ==
    LET f == frame[t]
        u == uframe[t]
    IN  /\ f.pc = "ret"
        /\ u.op # "none"
        /\ \/ /\ u.pc = "check"
              /\ f.result = "OkFalse"
              /\ UnitFinish(t, "AuthenticationRequired")
           \/ /\ u.pc = "check"
              /\ f.result = "OkTrue"
              /\ u.op = "enter_chroot_interactive"
              /\ UnitFinish(t, "Io")
           \/ /\ u.pc = "check"
              /\ f.result = "OkTrue"
              /\ glock[SHARED_ELEVATION] = 0
              /\ glock' = [glock EXCEPT ![GLOBAL_ELEVATION] = 0,
                                        ![SHARED_ELEVATION] = t]
              /\ frame' = [frame EXCEPT ![t] =
                   InvokeFrame(SHARED_ELEVATION, SecondOp(u.op),
                               IF u.op = "mount_filesystems"
                               THEN MOUNT_COMMANDS ELSE 1)]
              /\ obs' = [obs EXCEPT ![t] =
                   InvokeObs(SHARED_ELEVATION, SecondOp(u.op), "other")]
              /\ uframe' = [uframe EXCEPT ![t].pc = "run"]
              /\ last_call' = [last_call EXCEPT ![GLOBAL_ELEVATION] = "other",
                                                ![SHARED_ELEVATION] = "other"]
           \/ /\ u.pc = "run"
              /\ u.op = "unmount_filesystems"
              /\ \E next \in (u.mp + 1)..MOUNT_POINTS :
                   /\ uframe' = [uframe EXCEPT ![t].mp = next,
                                               ![t].failed =
                                                  @ \/ UmountFailed(u, f, obs[t])]
                   /\ frame' = [frame EXCEPT ![t] =
                        InvokeFrame(SHARED_ELEVATION, "execute_command", 1)]
                   /\ obs' = [obs EXCEPT ![t] =
                        InvokeObs(SHARED_ELEVATION, "execute_command", "other")]
                   /\ last_call' =
                        [last_call EXCEPT ![SHARED_ELEVATION] = "other"]
                   /\ UNCHANGED glock
           \/ /\ u.pc = "run"
              /\ UnitFinish(t, UnitResult(u, f, obs[t]))
        /\ UNCHANGED <<cacheVars, keeper, trusted, ever_auth, minutes>>

\* The caller has the method's result and goes on.
UnitReturn(t) ==
    /\ uframe[t].pc = "done"
    /\ uframe[t].cmd = "none"
    /\ uframe' = [uframe EXCEPT ![t] = IdleUnit]
    /\ obs' = [obs EXCEPT ![t] = NoObs]
    /\ UNCHANGED <<cacheVars, keeper, glock, frame, histVars, minutes>>

\* The functions that call several ChrootUnit methods in a row:
\* enter_chroot_with_unit (cli/list_interactive.rs) and ChrootUnit::cleanup
\* (filesystem.rs), which handle_existing_chroot calls with remove_directory.
UnitCmds == {"enter_chroot_with_unit", "cleanup"}

FirstUnitOp(cmd) ==
    IF cmd = "cleanup" THEN "unmount_filesystems"
    ELSE "pre_authenticate_operations"

\* The function with the history u calls the ChrootUnit method uop.
StartUnitOp(t, u, uop) ==
    LET g == FirstGateway(uop)
    IN  /\ glock[g] = 0
        /\ glock' = [glock EXCEPT ![g] = t]
        /\ uframe' = [uframe EXCEPT ![t] =
             [u EXCEPT !.op = uop,
                       !.pc = IF uop \in GuardedOps THEN "check" ELSE "run",
                       !.mp = 0,
                       !.result = "none"]]
        /\ Invoke(t, g, FirstOp(uop), 1)

\* The function returns with the history v.
CmdFinish(t, v) ==
    /\ uframe' = [uframe EXCEPT ![t] = [v EXCEPT !.pc = "cmd_done"]]
    /\ obs' = [obs EXCEPT ![t] = NoObs]
    /\ UNCHANGED <<glock, frame, last_call>>

\* enter_chroot_with_unit or cleanup is called.
CmdCall(t) ==
    /\ frame[t].pc = "idle"
    /\ uframe[t].op = "none"
    /\ \E cmd \in UnitCmds :
         \E remove \in BOOLEAN :
            /\ (cmd = "cleanup") \/ ~remove
            /\ StartUnitOp(t, [IdleUnit EXCEPT !.cmd = cmd, !.remove = remove],
                           FirstUnitOp(cmd))
    /\ UNCHANGED <<cacheVars, keeper, trusted, ever_auth, minutes>>

\* Variant of EnterChrootWithUnit that propagates the error of the chroot
\* entry with `?`.
EnterChrootWithUnitPropagates(u) ==
    CASE u.op = "pre_authenticate_operations" ->
           IF u.result = "Ok"
           THEN [next |-> "mount_filesystems", u |-> u]
           ELSE [next |-> "finish", u |-> [u EXCEPT !.cmd_result = u.result]]
      [] u.op = "mount_filesystems" ->
           IF u.result = "Ok"
           THEN [next |-> "enter_chroot_interactive",
                 u |-> [u EXCEPT !.entered = @ + 1]]
           ELSE [next |-> "finish", u |-> [u EXCEPT !.cmd_result = u.result]]
      [] u.op = "enter_chroot_interactive" ->
           IF u.result = "Ok"
           THEN [next |-> "unmount_filesystems",
                 u |-> [u EXCEPT !.entry = u.result, !.unmounts = @ + 1]]
           ELSE [next |-> "finish",
                 u |-> [u EXCEPT !.entry = u.result, !.cmd_result = u.result]]
      [] OTHER ->
           [next |-> "finish", u |-> [u EXCEPT !.cmd_result = u.entry]]

\* enter_chroot_with_unit, cli/list_interactive.rs 18-43: what it does once
\* the ChrootUnit method u.op has returned u.result.
EnterChrootWithUnit(u) ==
    CASE u.op = "pre_authenticate_operations" ->
           IF u.result = "Ok"
           THEN [next |-> "mount_filesystems", u |-> u]
           ELSE [next |-> "finish", u |-> [u EXCEPT !.cmd_result = u.result]]
      [] u.op = "mount_filesystems" ->
           IF u.result = "Ok"
           THEN [next |-> "enter_chroot_interactive",
                 u |-> [u EXCEPT !.entered = @ + 1]]
           ELSE [next |-> "finish", u |-> [u EXCEPT !.cmd_result = u.result]]
      [] u.op = "enter_chroot_interactive" ->
           [next |-> "unmount_filesystems",
            u |-> [u EXCEPT !.entry = u.result, !.unmounts = @ + 1]]
      [] OTHER ->
           [next |-> "finish", u |-> [u EXCEPT !.cmd_result = u.entry]]

\* ChrootUnit::cleanup, filesystem.rs 155-162: what it does once
\* unmount_filesystems has returned u.result; removal_ok is the outcome of
\* fs::remove_dir_all.
Cleanup(u, removal_ok) ==
    IF u.result # "Ok" THEN [u EXCEPT !.cmd_result = u.result]
    ELSE IF u.remove
         THEN [u EXCEPT !.removed = removal_ok,
                        !.cmd_result = IF removal_ok THEN "Ok" ELSE "Io"]
         ELSE [u EXCEPT !.cmd_result = "Ok"]

\* A ChrootUnit method called by enter_chroot_with_unit or cleanup has
\* returned: the function calls the next method or returns.
CmdContinue(t) ==
    LET u == uframe[t]
    IN  /\ u.pc = "done"
        /\ u.cmd # "none"
        /\ \/ /\ u.cmd = "enter_chroot_with_unit"
              /\ LET s == EnterChrootWithUnit(u)
                 IN  IF s.next = "finish" THEN CmdFinish(t, s.u)
                     ELSE StartUnitOp(t, s.u, s.next)
           \/ /\ u.cmd = "cleanup"
              /\ \E removal_ok \in BOOLEAN : CmdFinish(t, Cleanup(u, removal_ok))
        /\ UNCHANGED <<cacheVars, keeper, trusted, ever_auth, minutes>>

\* The caller has the function's result and goes on.
CmdReturn(t) ==
    /\ uframe[t].pc = "cmd_done"
    /\ uframe' = [uframe EXCEPT ![t] = IdleUnit]
    /\ UNCHANGED <<cacheVars, keeper, glock, frame, obs, histVars, minutes>>

\* A minute passes in the ChrootUnit specification.
TickUnit ==
    /\ minutes < MaxUnitMinutes
    /\ \A t \in Callers : uframe[t].pc \notin {"done", "cmd_done"}
    /\ MinutePasses
    /\ minutes' = minutes + 1

NextUnit ==
    \/ \E t \in UnitCallers : UnitCall(t)
    \/ \E t \in UnitCallers : UnitContinue(t)
    \/ \E t \in UnitCallers : UnitReturn(t)
    \/ \E t \in UnitCallers : CmdCall(t)
    \/ \E t \in UnitCallers : CmdContinue(t)
    \/ \E t \in UnitCallers : CmdReturn(t)
    \/ \E t \in UnitCallers : GatewayStep(t)
    \/ KeeperStep
    \/ TickUnit

SpecUnit == Init /\ [][NextUnit]_vars

\* ------------------------------------ a keeper left alone (SpecKeeper)

\* The state in which a first authenticate has just returned Ok on
\* TheGateway: flag set, timestamp now, the keeper in its first sleep.
InitKeeper ==
    /\ authenticated = [g \in Gateways |-> g = TheGateway]
    /\ last_auth = [g \in Gateways |-> IF g = TheGateway THEN 0 ELSE NoInstant]
    /\ session_keeper_handle =
         [g \in Gateways |-> IF g = TheGateway THEN 1 ELSE NoHandle]
    /\ keeper =
         [g \in Gateways |->
            [k \in KeeperIds |->
               IF g = TheGateway /\ k = 1
               THEN [pc |-> "sleeping", iterations |-> 0, late |-> 0]
               ELSE FreeKeeper]]
    /\ glock = [g \in Gateways |-> 0]
    /\ frame = [t \in Callers |-> IdleFrame]
    /\ obs = [t \in Callers |-> NoObs]
    /\ trusted = [g \in Gateways |-> g = TheGateway]
    /\ ever_auth = [g \in Gateways |-> g = TheGateway]
    /\ last_call = [g \in Gateways |-> "other"]
    /\ minutes = 0
    /\ uframe = [t \in Callers |-> IdleUnit]

\* No caller does anything: only the keeper runs and time passes.
NextKeeper ==
    \/ KeeperStep
    \/ Tick

\* thread::sleep returns, `sudo -n -v` returns, and the keeper thread is
\* scheduled.
SpecKeeper ==
    /\ InitKeeper
    /\ [][NextKeeper]_vars
    /\ WF_vars(KeeperStep)
    /\ WF_vars(Tick)

\* ------------------------------------------------------------ properties

\* The calls in progress of one public method.
Calling(op) ==
    {t \in Callers : frame[t].op = op}

\* The calls of one public method that have reached their return.
Returning(op) ==
    {t \in Calling(op) : frame[t].pc = "ret"}

\* Nothing of a session is left in the cache: flag false, no instant, no
\* handle, every keeper thread joined.
Cleared(g) ==
    /\ ~authenticated[g]
    /\ last_auth[g] = NoInstant
    /\ session_keeper_handle[g] = NoHandle
    /\ \A k \in KeeperIds : keeper[g][k].pc = "free"

\* The keeper whose handle the cache holds is running.
KeeperRunning(g) ==
    /\ session_keeper_handle[g] # NoHandle
    /\ KeeperAlive(g, session_keeper_handle[g])

\* The pcs of a call between an execute_command that failed and the return.
ErrorPathPcs ==
    {"invalidate", "clear_last_auth", "stop", "join", "ret"}

\* C1: an authenticate on an invalid cache whose elevation prompt succeeds
\* returns Ok with the cache valid and a fresh keeper running, also when a
\* handle of an earlier keeper is still stored.
C1_AuthenticateLeavesCacheValid ==
    \A t \in Returning("pre_authenticate") :
        obs[t].granted =>
            /\ frame[t].result = "Ok"
            /\ IsAuthenticated(frame[t].gw)
            /\ KeeperRunning(frame[t].gw)

\* C2 (as stated): execute on a gateway on which no authenticate has ever
\* succeeded shows no prompt, spawns no process, and fails with
\* AuthenticationRequired (SudoNotAvailable when sudo itself is missing).
C2_ExecuteNeverPromptsOriginal ==
    \A t \in Calling("execute_command") :
        obs[t].fresh =>
            /\ obs[t].prompts = 0
            /\ obs[t].spawned = <<>>
            /\ frame[t].pc = "ret" =>
                 frame[t].result \in {"AuthenticationRequired",
                                      "SudoNotAvailable"}

\* C2 (amended): execute on a gateway on which no authenticate has ever
\* succeeded never returns AuthenticationRequired; unless sudo is missing it
\* shows the prompt itself, exactly once; it spawns the command only after
\* the prompt was granted, and a refused prompt makes it return AccessDenied
\* (or the io error) with nothing spawned.
C2_ExecutePromptsWhenNeverAuthenticated ==
    \A t \in Calling("execute_command") :
        obs[t].fresh =>
            /\ frame[t].result # "AuthenticationRequired"
            /\ obs[t].spawned # <<>> => obs[t].granted
            /\ frame[t].pc = "ret" /\ frame[t].result # "SudoNotAvailable" =>
                 obs[t].prompts = 1
            /\ frame[t].pc = "ret" /\ obs[t].prompts = 1 /\ ~obs[t].granted =>
                 /\ frame[t].result \in {"AccessDenied", "Io"}
                 /\ obs[t].spawned = <<>>

C2_Witness ==
    \E t \in Returning("execute_command") :
        /\ obs[t].fresh
        /\ obs[t].granted
        /\ obs[t].spawned = <<1>>
        /\ frame[t].result = "Ok"

\* C3 (as stated): once a command of a batch has failed (exited
\* unsuccessfully), the batch runs no further command and returns an error.
C3_BatchStopsAtFirstFailureOriginal ==
    \A t \in Calling("execute_batch_commands") :
        obs[t].failed =>
            /\ frame[t].pc \in ErrorPathPcs
            /\ frame[t].pc = "ret" => frame[t].result \notin {"Ok", "none"}

\* C3 (amended): a batch spawns its commands in order, and once
\* execute_command has returned an error for command i the batch is on its
\* way out: commands 1..i-1 were spawned, command i was spawned or not, none
\* after i is, and the batch returns that error.
C3_BatchStopsAtFirstExecuteError ==
    \A t \in Calling("execute_batch_commands") :
        /\ obs[t].spawned = [j \in 1..Len(obs[t].spawned) |-> j]
        /\ obs[t].err_at # 0 =>
             /\ frame[t].idx = obs[t].err_at
             /\ Len(obs[t].spawned) \in {obs[t].err_at - 1, obs[t].err_at}
             /\ frame[t].pc \in ErrorPathPcs
             /\ frame[t].pc = "ret" => frame[t].result = obs[t].err

C3_Witness ==
    \E t \in Returning("execute_batch_commands") :
        /\ frame[t].n = 3
        /\ obs[t].err_at = 2
        /\ obs[t].spawned = <<1, 2>>
        /\ frame[t].result = "PermissionDenied"

\* C4: every ChrootUnit call site uses the one cache that
\* pre_authenticate_operations confirmed: while ChrootUnit::is_authenticated
\* would answer true, none of execute_elevated, mount_filesystems,
\* unmount_filesystems, enter_chroot_interactive is in the elevation prompt,
\* and once either invalidating call site has returned, no cache is valid.
C4_OneSharedGateway ==
    \A t \in UnitCallers :
        /\ (/\ uframe[t].op \in GuardedOps \cup {"execute_elevated"}
            /\ frame[t].pc = "sudo_v") =>
               ~IsAuthenticated(GLOBAL_ELEVATION)
        /\ (/\ uframe[t].op \in {"invalidate_authentication",
                                 "invalidate_elevation_cache"}
            /\ uframe[t].pc = "done") =>
               \A g \in Gateways : ~IsAuthenticated(g)

\* C5: when is_authenticated is about to answer true, an authenticate has
\* succeeded and since then there was no TTL expiry, no invalidate, no
\* expiry detection and no keeper renewal failure.
C5_ValidOnlyWithinSession ==
    \A t \in Calling("is_authenticated") :
        frame[t].pc = "is_authenticated" /\ IsAuthenticated(frame[t].gw) =>
            trusted[frame[t].gw]

\* C6: of two consecutive authenticate calls with nothing in between ending
\* the session, at most one shows a prompt, and the second starts no keeper.
C6_SecondAuthenticateIsNoOp ==
    \A t \in Calling("pre_authenticate") :
        obs[t].prev \in {"auth0", "auth1"} =>
            /\ (IF obs[t].prev = "auth1" THEN 1 ELSE 0) + obs[t].prompts <= 1
            /\ obs[t].started = 0

\* C7: when execute returns after the command's error output showed an
\* expiry phrase, it returns AccessDenied, the cache is invalid and cleared,
\* and no keeper is left running.
C7_ExpiryInvalidatesCache ==
    \A t \in Returning("execute_command") :
        obs[t].expiry =>
            /\ frame[t].result = "AccessDenied"
            /\ ~IsAuthenticated(frame[t].gw)
            /\ Cleared(frame[t].gw)

C7_Witness ==
    \E t \in Returning("execute_command") :
        /\ obs[t].expiry
        /\ obs[t].prompts = 0
        /\ obs[t].spawned = <<1>>
        /\ obs[t].invalidated

\* C8 (as stated): a call that returns PermissionDenied has written nothing
\* to the cache, which is still valid.
C8_PermissionDeniedWritesNothingOriginal ==
    \A t \in Returning("execute_command") :
        frame[t].result = "PermissionDenied" =>
            /\ ~obs[t].wrote
            /\ IsAuthenticated(frame[t].gw)

\* C8 (amended): a call that returns PermissionDenied has not invalidated
\* the cache, and has written to it only if it showed the prompt itself.
C8_PermissionDeniedDoesNotInvalidate ==
    \A t \in Returning("execute_command") :
        frame[t].result = "PermissionDenied" =>
            /\ ~obs[t].invalidated
            /\ obs[t].prompts = 0 => ~obs[t].wrote

C8_Witness ==
    \E t \in Returning("execute_command") :
        /\ frame[t].result = "PermissionDenied"
        /\ obs[t].prompts = 0
        /\ obs[t].spawned = <<1>>
        /\ IsAuthenticated(frame[t].gw)

\* C9: the step of execute that consults the cache goes on to the command
\* without a prompt while the session is in force (authenticate succeeded
\* less than 45 minutes ago, nothing ended the session since), and never
\* goes on to the command on a confirmation that is 45 minutes old or gone.
C9_TtlGovernsExecute ==
    [][\A t \in Callers :
          (/\ frame[t].op = "execute_command"
           /\ frame[t].pc = "execute_command"
           /\ frame'[t].pc # "execute_command") =>
              /\ trusted[frame[t].gw] => frame'[t].pc \in {"sudo_n", "ret"}
              /\ last_auth[frame[t].gw] \in {NoInstant, cache_duration} =>
                   frame'[t].pc # "sudo_n"]_vars

\* C10: invalidate always returns Ok and leaves the cache cleared (flag
\* false, no instant, no handle, no keeper), whatever the state before, so a
\* second invalidate leaves the state of the first.
C10_InvalidateIdempotent ==
    \A t \in Returning("invalidate_cache") :
        /\ frame[t].result = "Ok"
        /\ ~IsAuthenticated(frame[t].gw)
        /\ Cleared(frame[t].gw)

C10_Witness ==
    \E t \in Returning("invalidate_cache") :
        /\ obs[t].prev = "invalidate"
        /\ ever_auth[frame[t].gw]
        /\ Cleared(frame[t].gw)

\* C11: a newly constructed cache is invalid, and whenever is_authenticated
\* answers, it answers true exactly when the flag is true, a timestamp is set
\* and its age is strictly below the TTL (so false at age = TTL).
C11_ValidIffFlagAndFreshTimestamp ==
    /\ \A g \in Gateways : ~IsAuthenticated(g)
    /\ [][\A t \in Callers :
             (frame[t].pc = "is_authenticated" /\ frame'[t].pc = "ret") =>
                (frame'[t].result = "OkTrue" <=>
                    /\ authenticated[frame[t].gw]
                    /\ last_auth[frame[t].gw] \in 0..(CACHE_MINUTES - 1))]_vars

C11_Witness ==
    \E t \in Returning("is_authenticated") :
        /\ frame[t].result = "OkFalse"
        /\ authenticated[frame[t].gw]
        /\ last_auth[frame[t].gw] = CACHE_MINUTES

\* C12: when the elevation prompt of an authenticate on an invalid cache is
\* rejected, the call returns AccessDenied at once and the cache is still
\* invalid; that authenticate has written nothing to the cache and started no
\* keeper (seen on the calls in which it was the only authenticate).
C12_RejectedPromptChangesNothing ==
    \A t \in Callers :
        obs[t].rejected =>
            /\ frame[t].pc = "ret"
            /\ frame[t].result = "AccessDenied"
            /\ ~IsAuthenticated(frame[t].gw)
            /\ obs[t].prompts = 1 => ~obs[t].wrote /\ obs[t].started = 0

C12_Witness ==
    \E t \in Returning("pre_authenticate") :
        /\ obs[t].rejected
        /\ ~obs[t].fresh
        /\ session_keeper_handle[frame[t].gw] # NoHandle

\* A caller takes one of the two steps by which authenticate confirms the
\* cache of g (lines 67-68).
ConfirmStep(g) ==
    \E t \in Callers :
        /\ frame[t].gw = g
        /\ frame[t].pc \in {"set_authenticated", "set_last_auth"}
        /\ frame'[t].pc # frame[t].pc

\* C13: no step of a keeper turns the authenticated flag from false to true
\* or touches the timestamp, and a cache that is invalid (as invalidate
\* leaves it) becomes valid again only by a step of a successful
\* authenticate, in every interleaving of callers and keepers.
C13_InvalidationWinsOverKeeper ==
    [][/\ KeeperStep =>
            /\ last_auth' = last_auth
            /\ \A g \in Gateways : authenticated'[g] => authenticated[g]
       /\ \A g \in Gateways :
            (~IsAuthenticated(g) /\ IsAuthenticated(g)') => ConfirmStep(g)]_vars

C13_Witness ==
    \E t \in Calling("invalidate_cache") :
        /\ frame[t].pc = "join"
        /\ keeper[frame[t].gw][frame[t].joining].pc = "failed"

\* A keeper of g reads or writes the authenticated flag (lines 101-105, 120-122).
KeeperAccess(g) ==
    \E k \in KeeperIds : KeeperCheck(g, k) \/ KeeperInvalidate(g, k)

\* C14: a keeper reads or writes the authenticated flag only while no caller
\* is inside a public method of that gateway (holding its lock), so no keeper
\* access falls between two steps of an authenticate, execute or invalidate.
C14_KeeperAccessUnderGatewayLock ==
    [][\A g \in Gateways : KeeperAccess(g) => glock[g] = 0]_vars

\* The keeper threads of g that were spawned and not yet joined.
KeepersUnjoined(g) ==
    {k \in KeeperIds : keeper[g][k].pc # "free"}

\* C15: a cache never has more than one keeper thread (running, or finished
\* and not yet joined), and when start_session_keeper is about to spawn,
\* every earlier keeper of that cache has terminated and been joined.
C15_AtMostOneKeeper ==
    /\ \A g \in Gateways : Cardinality(KeepersUnjoined(g)) <= 1
    /\ \A t \in Callers :
         frame[t].pc = "spawn" => KeepersUnjoined(frame[t].gw) = {}

C15_Witness ==
    \E t \in Callers :
        /\ frame[t].pc = "spawn"
        /\ ~authenticated[frame[t].gw]
        /\ obs[t].wrote

\* C16: a keeper that stops right after a renewal attempt, short of its
\* last iteration, stopped because the attempt failed (the renewal command
\* could not be run; an unsuccessful exit goes through the write of line
\* 121 first): the authenticated flag is false once it has stopped.
C16_RenewalFailureClearsFlag ==
    [][\A g \in Gateways, k \in KeeperIds :
          (/\ keeper[g][k].pc \in {"renew", "failed"}
           /\ keeper[g][k].iterations + 1 < max_iterations
           /\ keeper'[g][k].pc = "done") =>
              ~authenticated'[g]]_vars

\* C17: a keeper left alone has always completed fewer than 45 renewals
\* while it runs (so it attempts at most 45), and it eventually stops, also
\* when every renewal succeeds and nobody invalidates.
C17_KeeperTerminates ==
    /\ [](\A k \in KeeperIds :
            KeeperAlive(TheGateway, k) =>
                keeper[TheGateway][k].iterations < CACHE_MINUTES)
    /\ <>(KeepersAlive(TheGateway) = {})

C17_Witness ==
    /\ keeper[TheGateway][1].pc = "renew"
    /\ keeper[TheGateway][1].iterations = CACHE_MINUTES - 1
    /\ authenticated[TheGateway]

\* C18: a successful renewal (the keeper goes back to sleep) leaves flag and
\* timestamp as they were, and with no caller acting after the authenticate
\* the timestamp keeps ageing whatever the keeper does: a running keeper has
\* never completed more renewals than the confirmation is minutes old, so
\* the window ends 45 minutes after the last successful authenticate.
C18_RenewalLeavesWindowAlone ==
    /\ [](\A g \in Gateways, k \in KeeperIds :
            KeeperAlive(g, k) /\ last_auth[g] # NoInstant =>
                keeper[g][k].iterations <= last_auth[g])
    /\ [][\A g \in Gateways, k \in KeeperIds :
             (keeper[g][k].pc = "renew" /\ keeper'[g][k].pc = "sleeping") =>
                /\ authenticated'[g] = authenticated[g]
                /\ last_auth'[g] = last_auth[g]]_vars

C18_Witness ==
    \E g \in Gateways, k \in KeeperIds :
        /\ KeeperAlive(g, k)
        /\ keeper[g][k].iterations = CACHE_MINUTES - 1
        /\ authenticated[g]
        /\ ~IsAuthenticated(g)

\* C19: a keeper gets to its renewal call only from a check, after the
\* sleep, that read authenticated = true; a check that reads false ends the
\* keeper, and a keeper that has ended issues no renewal any more.
C19_CheckPrecedesRenewal ==
    [][\A g \in Gateways, k \in KeeperIds :
          /\ (keeper[g][k].pc # "renew" /\ keeper'[g][k].pc = "renew") =>
                keeper[g][k].pc = "slept" /\ authenticated[g]
          /\ (/\ keeper[g][k].pc = "slept"
              /\ ~authenticated[g]
              /\ keeper'[g][k].pc # "slept") =>
                keeper'[g][k].pc = "done"
          /\ keeper[g][k].pc = "done" =>
                keeper'[g][k].pc \in {"done", "free"}]_vars

C19_Witness ==
    \E t \in Callers :
        /\ frame[t].pc = "join"
        /\ keeper[frame[t].gw][frame[t].joining].pc = "slept"
        /\ ~authenticated[frame[t].gw]

\* C20: from the start of an invalidate to its return the caller holds the
\* gateway lock and no other caller is inside a method of that gateway, and
\* when the invalidate returns every keeper of the cache has terminated and
\* been joined.
C20_StopIsSynchronous ==
    \A t \in Calling("invalidate_cache") :
        /\ glock[frame[t].gw] = t
        /\ \A u \in Callers \ {t} : frame[u].gw # frame[t].gw
        /\ frame[t].pc = "ret" => KeepersUnjoined(frame[t].gw) = {}

C20_Witness ==
    \E t \in Calling("invalidate_cache") :
        /\ frame[t].pc = "join"
        /\ keeper[frame[t].gw][frame[t].joining].pc = "sleeping"
        /\ \E u \in Callers \ {t} : frame[u].pc = "idle"

\* C21: the calls on a gateway are serialized by its lock (at most one caller
\* is inside it), and a caller whose authentication request is served right
\* after another caller's request was served with an accepted prompt, the
\* session still being in force, takes the fast path: no second prompt.
C21_SecondCallerTakesFastPath ==
    /\ \A t, u \in Callers :
         (t # u /\ frame[t].gw \in Gateways) => frame[u].gw # frame[t].gw
    /\ \A t \in Calling("pre_authenticate") :
         obs[t].prev = "auth1" =>
            /\ obs[t].prompts = 0
            /\ frame[t].pc = "ret" =>
                 frame[t].result \in {"Ok", "SudoNotAvailable"}

\* The public methods that start with the is_sudo_available test.
ProbingOps ==
    {"pre_authenticate", "execute_command", "execute_command_interactive",
     "execute_batch_commands"}

\* C22: when the first step of pre_authenticate, execute_command,
\* execute_command_interactive or execute_batch_commands finds sudo missing,
\* that step returns SudoNotAvailable: the call has shown no prompt, spawned
\* nothing, and the step leaves the cache as it was.
C22_SudoMissingIsFirstStep ==
    [][\A t \in Callers :
          (/\ frame[t].op \in ProbingOps
           /\ frame[t].pc = frame[t].op
           /\ frame'[t].result = "SudoNotAvailable") =>
              /\ frame'[t].pc = "ret"
              /\ obs'[t].prompts = 0
              /\ obs'[t].spawned = <<>>
              /\ ~obs'[t].wrote
              /\ UNCHANGED <<cacheVars, keeper>>]_vars

C22_Witness ==
    \E t \in Returning("execute_batch_commands") :
        /\ frame[t].result = "SudoNotAvailable"
        /\ frame[t].n > 0
        /\ obs[t].err_at = 0
        /\ IsAuthenticated(frame[t].gw)

\* C23: execute_command_interactive never authenticates and never writes the
\* cache: on an invalid cache its first step returns AuthenticationRequired
\* (or SudoNotAvailable) with no prompt and nothing spawned, and no step of it,
\* whatever the command's exit status, changes the cache or its keeper.
C23_InteractiveLeavesCacheAlone ==
    [][\A t \in Callers :
          (/\ frame[t].op = "execute_command_interactive"
           /\ frame[t].pc \in {"execute_command_interactive", "sudo_n_inherit"}
           /\ frame'[t] # frame[t]) =>
              /\ UNCHANGED <<cacheVars, keeper>>
              /\ obs'[t].prompts = 0
              /\ ~obs'[t].wrote /\ ~obs'[t].invalidated
              /\ (frame[t].pc = "execute_command_interactive"
                    /\ ~IsAuthenticated(frame[t].gw)) =>
                      /\ frame'[t].pc = "ret"
                      /\ frame'[t].result \in
                            {"AuthenticationRequired", "SudoNotAvailable"}
                      /\ obs'[t].spawned = <<>>
              /\ frame'[t].result = "AuthenticationRequired" =>
                    ~IsAuthenticated(frame[t].gw)]_vars

C23_Witness ==
    \E t \in Returning("execute_command_interactive") :
        /\ frame[t].result = "AuthenticationRequired"
        /\ ever_auth[frame[t].gw]
        /\ authenticated[frame[t].gw]
        /\ obs[t].spawned = <<>>

\* C24: execute_batch_commands prompts once for the whole batch.  A batch
\* shows a second prompt only after one of its commands reported an expired
\* session or the session confirmed by its first prompt has ended since (TTL
\* expiry, keeper renewal failure).
C24_BatchPromptsOnce ==
    [][\A t \in Callers :
          (/\ frame[t].op = "execute_batch_commands"
           /\ frame[t].pc = "sudo_v"
           /\ obs[t].granted
           /\ obs'[t].prompts > obs[t].prompts) =>
              \/ obs[t].expiry
              \/ ~trusted[frame[t].gw]]_vars

\* The positions in which a caller is about to spawn the target program.
SpawnPcs == {"sudo_n", "sudo_n_inherit"}

\* C25: a caller reaches the spawn of a target program only from a step that
\* observed the cache valid or after a `sudo -v` of the same call was accepted;
\* a call that detected an expired session spawns nothing more and returns
\* with the cache invalid, so the next spawn needs a new authentication.
C25_SpawnOnlyWhenAuthorized ==
    [][\A t \in Callers :
          /\ (frame'[t].pc \in SpawnPcs /\ frame[t].pc # frame'[t].pc) =>
                \/ /\ frame[t].pc \in {"execute_command", "authenticate",
                                        "execute_command_interactive"}
                   /\ IsAuthenticated(frame[t].gw)
                \/ /\ frame[t].pc = "spawn"
                   /\ obs[t].granted
                   /\ ~obs[t].expiry
          /\ (obs[t].expiry /\ frame[t].pc # "ret") =>
                /\ frame'[t].pc \notin SpawnPcs
                /\ obs'[t].spawned = obs[t].spawned
                /\ frame'[t].pc = "ret" => ~IsAuthenticated(frame[t].gw)']_vars

C25_Witness ==
    \E t \in Calling("execute_batch_commands") :
        /\ frame[t].pc = "sudo_n"
        /\ frame[t].idx = 2
        /\ obs[t].granted
        /\ ~obs[t].fresh

\* The callers inside the batch of mount_filesystems, or back from it.
Mounting ==
    {t \in Callers : /\ uframe[t].op = "mount_filesystems"
                     /\ uframe[t].pc \in {"run", "done"}
                     /\ frame[t].op \in {"execute_batch_commands", "none"}}

\* C26 as stated: once a mount command has exited unsuccessfully,
\* mount_filesystems runs no later mount command.
C26_MountStopsAtFirstFailureOriginal ==
    [][\A t \in Mounting :
          (uframe[t].pc = "run" /\ obs[t].failed) =>
              obs'[t].spawned = obs[t].spawned]_vars

\* C26, amended: mount_filesystems runs its mount commands in order and runs
\* no later one once execute_command has returned an error; it returns Ok only
\* if all seven ran and exited successfully, and an error if any of them
\* exited unsuccessfully (the later ones may have run all the same).
C26_MountOkOnlyIfAllSucceeded ==
    [][\A t \in Mounting :
          /\ obs[t].spawned = [i \in 1..Len(obs[t].spawned) |-> i]
          /\ (uframe[t].pc = "run" /\ obs[t].err # "none") =>
                obs'[t].spawned = obs[t].spawned
          /\ (uframe[t].pc = "done" /\ uframe[t].result = "Ok") =>
                /\ Len(obs[t].spawned) = MOUNT_COMMANDS
                /\ ~obs[t].failed
          /\ (uframe[t].pc = "done" /\ obs[t].failed) =>
                uframe[t].result \in {"Command", "AccessDenied",
                                      "PermissionDenied", "Io",
                                      "SudoNotAvailable"}]_vars

C26_Witness ==
    \E t \in Mounting :
        /\ uframe[t].pc = "done"
        /\ uframe[t].result = "Command"
        /\ Len(obs[t].spawned) = MOUNT_COMMANDS

\* C27: execute_command classifies the Output of the command it ran: a
\* successful exit status gives Ok whatever stderr holds; a failed one with an
\* expiry phrase gives AccessDenied after the cache was invalidated, also when
\* a permission phrase is present; a failed one with only a permission phrase
\* gives PermissionDenied; any other failure gives Ok.  Only the expiry case
\* touches the cache.
C27_OutputClassification ==
    [][\A t \in Calling("execute_command") :
          /\ (frame[t].pc = "ret" /\ obs[t].spawned # <<>>) =>
                frame[t].result =
                   (IF ~obs[t].failed THEN "Ok"
                    ELSE IF obs[t].expiry THEN "AccessDenied"
                    ELSE IF obs[t].perm THEN "PermissionDenied"
                    ELSE "Ok")
          /\ (frame[t].pc = "ret" /\ obs[t].expiry) =>
                /\ obs[t].invalidated
                /\ ~authenticated[frame[t].gw]
                /\ last_auth[frame[t].gw] = NoInstant
          /\ (frame[t].pc = "sudo_n" /\ obs'[t].spawned # <<>>
                                     /\ ~obs'[t].expiry) =>
                /\ frame'[t].pc = "ret"
                /\ ~obs'[t].invalidated
                /\ UNCHANGED <<cacheVars, keeper>>]_vars

C27_Witness ==
    \E t \in Returning("execute_command") :
        /\ obs[t].expiry /\ obs[t].perm
        /\ frame[t].result = "AccessDenied"
        /\ obs[t].prompts = 0

\* C28: a caller that joins a keeper gets out of the join: the keeper it waits
\* for needs no lock the caller holds, finds the flag cleared at its next check
\* and returns without another renewal.
C28_JoinReturns ==
    /\ \A t \in Callers : (frame[t].pc = "join") ~> (frame[t].pc # "join")
    /\ [][\A t \in Callers :
             LET g == frame[t].gw
                 k == frame[t].joining
             IN  (frame[t].pc = "join" /\ keeper[g][k].pc = "slept") =>
                    keeper'[g][k].pc \in {"slept", "done"}]_vars

C28_Witness ==
    \E t \in Callers :
        /\ frame[t].pc = "join"
        /\ keeper[frame[t].gw][frame[t].joining].pc = "renew"
        /\ glock[frame[t].gw] = t

\* The callers inside the CLI function cmd, or just back from it.
InCmd(cmd) ==
    {t \in Callers : uframe[t].cmd = cmd}

\* C29: cleanup(true) deletes the chroot directory only after the unmount
\* succeeded: it deletes nothing when it returns AuthenticationRequired, and
\* nothing when one of the umount commands failed.
C29_RemoveOnlyAfterUnmount ==
    \A t \in InCmd("cleanup") :
        uframe[t].pc = "cmd_done" =>
           /\ uframe[t].cmd_result = "AuthenticationRequired" =>
                 ~uframe[t].removed
           /\ uframe[t].failed => ~uframe[t].removed

\* C30: enter_chroot_with_unit enters the chroot only after
\* pre_authenticate_operations and mount_filesystems returned Ok; once it has,
\* it calls unmount_filesystems exactly once, after enter_chroot_interactive
\* has returned, and its own result is that of the chroot entry.  When the
\* authentication or the mount fails it returns that error with neither a
\* chroot entry nor an unmount.
C30_UnmountOnceAfterEntry ==
    \A t \in InCmd("enter_chroot_with_unit") :
        LET u == uframe[t]
        IN  /\ u.entered <= 1 /\ u.unmounts <= u.entered
            /\ u.op \in {"enter_chroot_interactive", "unmount_filesystems"} =>
                  u.entered = 1
            /\ u.op = "enter_chroot_interactive" =>
                  u.unmounts = 0 /\ u.entry = "none"
            /\ u.op = "unmount_filesystems" =>
                  u.unmounts = 1 /\ u.entry # "none"
            /\ (u.pc = "cmd_done" /\ u.entered = 1) =>
                  /\ u.op = "unmount_filesystems"
                  /\ u.unmounts = 1
                  /\ u.cmd_result = u.entry
            /\ (u.pc = "cmd_done" /\ u.entered = 0) =>
                  /\ u.op \in {"pre_authenticate_operations",
                                "mount_filesystems"}
                  /\ u.unmounts = 0 /\ u.entry = "none"
                  /\ u.cmd_result \notin {"Ok", "none"}

C30_Witness ==
    \E t \in InCmd("enter_chroot_with_unit") :
        /\ uframe[t].pc = "cmd_done"
        /\ uframe[t].entered = 1
        /\ uframe[t].unmounts = 1
        /\ uframe[t].entry = "ElevationError"
        /\ uframe[t].result = "AuthenticationRequired"

====
